---- MODULE Spec2Model ----
(***************************************************************************)
(* Model of textfile-exporter (src/main.go): a background loop that scans  *)
(* a path for *.prom files, clears the collector, parses every current     *)
(* file and adds its gauge/counter/untyped samples to the collector, while *)
(* HTTP scrapes collect from the same collector concurrently.              *)
(*                                                                         *)
(* Time is counted in clock ticks; TicksPerMs ticks make one millisecond,  *)
(* so that the truncation of time.Now() to whole milliseconds (line 211)   *)
(* is visible.  Durations (max age, old-file age) are in ticks.            *)
(***************************************************************************)
EXTENDS Integers, Sequences, FiniteSets, TLC

(* ------------------------------ bounds --------------------------------- *)
\* last clock tick the model lets the wall clock reach
MaxTime == 4
\* most samples the files of one pass hold in gauge, counter and untyped
\* families; once they are used up the pass's files hold no such family
MaxSamples == 2
\* the same, in the specification that records the history of the generations
GenSamples == 1
\* the same, in the specification that states the loop's progress
LiveSamples == 1

(* --------------------------- program constants ------------------------- *)
\* ticks per millisecond: the divisor/multiplier 1000000 of lines 211 and 227
TicksPerMs == 2
\* -m, max age of in-memory metrics (line 66), in ticks
optMemoryMaxAge == 1
\* -o, min age of files considered old (line 67), in ticks
optOldFilesAge == 2
\* -x, external command executed on old files (line 68), as words
optOldFilesExternalCmd == <<"ls", "-l", "{}">>
\* -p, the configured path (line 64)
optPromPath == "."
\* the wall clock when the program starts: one millisecond after the epoch, so
\* that a file can carry a timestamp that is not in the future
StartTime == 2

(* ------------------------------- inputs -------------------------------- *)
\* regular *.prom entries a directory listing can hold, in ReadDir order
PromFiles == <<"./a.prom", "./b.prom">>
\* the metric families a file can hold: name and dto.MetricType
Families ==
    {<<"x", "GAUGE">>, <<"x", "SUMMARY">>, <<"x", "HISTOGRAM">>,
     <<"y", "COUNTER">>, <<"y", "UNTYPED">>, <<"y", "GAUGE_HISTOGRAM">>}
\* sample values
Values == {1, 2}
\* decoded timestamps in ms; 0 is what GetTimestampMs returns when there is none
TimestampsMs == {-1, 0, 1}
\* help texts
Helps == {"h"}

NoLabels == [n \in {} |-> "1"]
\* label sets a decoded sample can carry
LabelSets == {NoLabels, [n \in {"a"} |-> "1"]}

VARIABLES
    store,       \* the collector's points (a set, one per identity)
    maxAge,      \* the collector's max age, set at construction
    now,         \* wall clock, in ticks
    pc,          \* position of the background loop
    files,       \* the pass's list of files
    i,           \* index into files of the file being processed (1-based)
    doneNames,   \* families of the current file already ranged over
    curName,     \* name of the family being ranged over
    curType,     \* its type
    curHelp,     \* its help text
    labels,      \* the family's labels map (line 175)
    nSamples,    \* samples added so far in this pass
    budget,      \* most added samples the files of one pass hold
    \* history variables
    hist,        \* whether prevFinal and midSnap are recorded
    passStart,   \* clock at the top of the current pass (0 once it has ended)
    prevFinal,   \* the store as the previous completed pass left it
    passesDone,  \* TRUE once a pass has completed
    midSnap,     \* the last scrape taken since the current pass started
    putLog,      \* the points handed to Add since the last Clear, last per identity
    dropped,     \* the names the last Clear removed and no Add has supplied since
    lastPut,     \* the Add that just ran: its point, whether the sample had no
                 \* timestamp, its timestamp if it had one, its labels as decoded,
                 \* the values it replaced
    cur          \* the file the loop body last ran for: its age when stat()ed, the
                 \* commands run for it and whether the command failed, whether a
                 \* point was added from it, whether
                 \* a family of it was skipped, its parse result

vars == <<hist, budget, store, maxAge, now, pc, files, i, doneNames, curName, curType, curHelp,
          labels, nSamples, passStart, prevFinal, passesDone, midSnap, putLog,
          dropped, lastPut, cur>>

loopVars == <<files, i, doneNames, curName, curType, curHelp, labels, nSamples>>
passLog == <<cur>>
cfg == <<hist, budget, maxAge>>

(* ------------------------------ collector ------------------------------ *)
Identity(p) == <<p.name, p.labels>>

\* collector.Clear(): "Make the collector empty"
Clear(s) == {}

\* mutant: Add appends, whatever the identity
AddAppends(s, p) == s \cup {p}

\* collector.Add(name, labels, type, value, time, 0, help): keyed by identity,
\* the last Add of an identity wins
Add(s, p) == {q \in s : Identity(q) # Identity(p)} \cup {p}

\* Collect: the points whose age at the time of the read is at most maxAge
Collect(s, t, age) == {p \in s : t - p.timestamp <= age}

\* mutant: the collector is given the old-file age
newCollectorOldFilesAge == optOldFilesAge

\* newTimeAwareCollector(*optMemoryMaxAge)
newTimeAwareCollector == optMemoryMaxAge

(* ------------------------------- helpers ------------------------------- *)
\* time.Now().UTC().UnixNano() / 1000000
NowMs(t) == t \div TicksPerMs

\* time.Unix(0, timestamp*int64(time.Millisecond))
UnixMs(ms) == ms * TicksPerMs

\* mutant: a missing timestamp is kept
TimestampKept(ms, t) == ms

\* mutant: every sample gets the time of its Add
TimestampRefreshed(ms, t) == NowMs(t)

\* if timestamp <= 0 { timestamp = now in ms }
Timestamp(ms, t) == IF ms <= 0 THEN NowMs(t) ELSE ms

\* labels[label.GetName()] = label.GetValue(), for every label of the sample
SetLabels(acc, ls) ==
    [n \in DOMAIN acc \cup DOMAIN ls |-> IF n \in DOMAIN ls THEN ls[n] ELSE acc[n]]

\* mutant: the other kinds are added as untyped
ValueTypeNoBreak(t) ==
    CASE t = "GAUGE" -> "GaugeValue"
      [] t = "COUNTER" -> "CounterValue"
      [] OTHER -> "UntypedValue"

\* the switch on mf.GetType(): the value type, or "out" for break out
ValueType(t) ==
    CASE t = "GAUGE" -> "GaugeValue"
      [] t = "COUNTER" -> "CounterValue"
      [] t = "UNTYPED" -> "UntypedValue"
      [] OTHER -> "out"

\* mutant: a file exactly of the old-file age is old
IsOldInclusive(t, mtime) == t >= mtime + optOldFilesAge

\* time.Now().After(fileinfo.ModTime().Add(*optOldFilesAge))
IsOld(t, mtime) == t > mtime + optOldFilesAge

\* strings.ReplaceAll(*optOldFilesExternalCmd, "{}", f)
CmdString(f) ==
    [k \in DOMAIN optOldFilesExternalCmd |->
        IF optOldFilesExternalCmd[k] = "{}" THEN f ELSE optOldFilesExternalCmd[k]]

\* the lists of files a pass can find: a directory's *.prom entries, or the path itself
Listings ==
    {<<>>, <<PromFiles[1]>>, PromFiles, <<optPromPath>>}

NoSnap == [taken |-> FALSE, after |-> FALSE, at |-> 0, points |-> {}]
NoFile ==
    [file |-> "", stat |-> "", age |-> 0, cmds |-> <<>>, cmdErr |-> FALSE,
     added |-> FALSE, skipped |-> FALSE, parse |-> ""]
NoPut ==
    [done |-> FALSE, absent |-> FALSE, ms |-> 0, decoded |-> NoLabels, point |-> <<>>,
     over |-> {}]

Range(f) == {f[k] : k \in DOMAIN f}

(* -------------------------------- Init --------------------------------- *)
InitVars ==
    /\ store = {}
    /\ maxAge = newTimeAwareCollector
    /\ now = StartTime
    /\ pc = "stat"
    /\ files = <<>>
    /\ i = 1
    /\ doneNames = {}
    /\ curName = ""
    /\ curType = ""
    /\ curHelp = ""
    /\ labels = NoLabels
    /\ nSamples = 0
    /\ passStart = StartTime
    /\ prevFinal = {}
    /\ passesDone = FALSE
    /\ midSnap = NoSnap
    /\ putLog = {}
    /\ dropped = {}
    /\ lastPut = NoPut
    /\ cur = NoFile

Init == InitVars /\ hist = FALSE /\ budget = MaxSamples

InitGen == InitVars /\ hist = TRUE /\ budget = GenSamples

InitLive == InitVars /\ hist = FALSE /\ budget = LiveSamples

\* every step but an Add forgets the Add that just ran
Forget == lastPut' = NoPut

\* the family's locals (name, mf, labels) go out of scope
LeaveFamily == curName' = "" /\ curType' = "" /\ curHelp' = "" /\ labels' = NoLabels

(* ------------------------- the background loop ------------------------- *)
\* mutant: a failed scan clears the collector
ScanFailClears ==
    /\ pc = "stat"
    /\ pc' = "exited"
    /\ store' = Clear(store)
    /\ Forget
    /\ UNCHANGED <<cfg, now, loopVars, passStart, prevFinal, passesDone,
                   midSnap, putLog, dropped, passLog>>

\* lines 84-88, 110-114: os.Stat or os.ReadDir fails: break
ScanFail ==
    /\ pc = "stat"
    /\ pc' = "exited"
    /\ Forget
    /\ UNCHANGED <<cfg, store, now, loopVars, passStart, prevFinal, passesDone,
                   midSnap, putLog, dropped, passLog>>

\* lines 84-132: the pass's list of files
Scan ==
    /\ pc = "stat"
    /\ \E l \in Listings : files' = l
    /\ pc' = "clear"
    /\ prevFinal' = IF hist THEN store ELSE prevFinal
    /\ Forget
    /\ UNCHANGED <<cfg, store, now, i, doneNames, curName, curType, curHelp,
                   labels, nSamples, passStart, passesDone, midSnap, putLog, dropped, passLog>>

\* mutant: the pass does not clear the collector
ClearCollectorSkipped ==
    /\ pc = "clear"
    /\ putLog' = {}
    /\ dropped' = {p.name : p \in store}
    /\ i' = 1
    /\ pc' = "file"
    /\ Forget
    /\ UNCHANGED <<cfg, store, now, files, doneNames, curName, curType, curHelp, labels,
                   nSamples, passStart, prevFinal, passesDone, midSnap, passLog>>

\* line 138: collector.Clear()
ClearCollector ==
    /\ pc = "clear"
    /\ store' = Clear(store)
    /\ putLog' = {}
    /\ dropped' = {p.name : p \in store}
    /\ i' = 1
    /\ pc' = "file"
    /\ Forget
    /\ UNCHANGED <<cfg, now, files, doneNames, curName, curType, curHelp, labels,
                   nSamples, passStart, prevFinal, passesDone, midSnap, passLog>>

\* line 141: the range over files is exhausted; the loop goes to sleep
EndPass ==
    /\ pc = "file"
    /\ i > Len(files)
    /\ pc' = "sleep"
    /\ passesDone' = TRUE
    /\ passStart' = 0
    /\ Forget
    /\ UNCHANGED <<cfg, store, now, loopVars, prevFinal, midSnap, putLog, dropped,
                   passLog>>

\* lines 147-151: os.Stat(f) fails: continue
StatFileFail ==
    /\ pc = "file"
    /\ i <= Len(files)
    /\ i' = i + 1
    /\ cur' = [NoFile EXCEPT !.file = files[i], !.stat = "error"]
    /\ Forget
    /\ UNCHANGED <<cfg, store, now, pc, files, doneNames, curName, curType,
                   curHelp, labels, nSamples, passStart, prevFinal, passesDone,
                   midSnap, putLog, dropped>>

\* the modification times a stat() can report at time t
ModTimes(t) == {t - optOldFilesAge, t - optOldFilesAge - 1}

\* lines 153-158: the file is old: the external command is started
OldFile ==
    /\ pc = "file"
    /\ i <= Len(files)
    /\ \E mtime \in ModTimes(now) :
        /\ IsOld(now, mtime)
        /\ cur' = [NoFile EXCEPT !.file = files[i], !.stat = "ok", !.age = now - mtime,
                                 !.cmds = <<CmdString(files[i])>>]
    /\ pc' = "cmd"
    /\ Forget
    /\ UNCHANGED <<cfg, store, now, loopVars, passStart, prevFinal, passesDone,
                   midSnap, putLog, dropped>>

\* mutant: a failed command ends the pass
CmdFailAborts ==
    /\ pc = "cmd"
    /\ \E err \in BOOLEAN :
        /\ cur' = [cur EXCEPT !.cmdErr = err]
        /\ IF err THEN pc' = "sleep" /\ passesDone' = TRUE /\ passStart' = 0 /\ i' = i
                  ELSE pc' = "file" /\ i' = i + 1 /\ UNCHANGED <<passesDone, passStart>>
    /\ Forget
    /\ UNCHANGED <<cfg, store, now, files, doneNames, curName, curType, curHelp,
                   labels, nSamples, prevFinal, midSnap, putLog, dropped>>

\* lines 158-163: cmd.Output() returns, with or without an error: continue
CmdReturns ==
    /\ pc = "cmd"
    /\ \E err \in BOOLEAN : cur' = [cur EXCEPT !.cmdErr = err]
    /\ i' = i + 1
    /\ pc' = "file"
    /\ Forget
    /\ UNCHANGED <<cfg, store, now, files, doneNames, curName, curType, curHelp,
                   labels, nSamples, passStart, prevFinal, passesDone, midSnap,
                   putLog, dropped>>

\* mutant: a parse failure ends the pass
ParseFailAborts ==
    /\ pc = "file"
    /\ i <= Len(files)
    /\ \E mtime \in ModTimes(now) :
        /\ ~IsOld(now, mtime)
        /\ cur' = [NoFile EXCEPT !.file = files[i], !.stat = "ok", !.age = now - mtime,
                                 !.parse = "error"]
    /\ pc' = "sleep"
    /\ passesDone' = TRUE
    /\ passStart' = 0
    /\ Forget
    /\ UNCHANGED <<cfg, store, now, loopVars, prevFinal, midSnap, putLog, dropped>>

\* lines 166-170: the file is current and parseMF fails: continue
ParseFail ==
    /\ pc = "file"
    /\ i <= Len(files)
    /\ \E mtime \in ModTimes(now) :
        /\ ~IsOld(now, mtime)
        /\ cur' = [NoFile EXCEPT !.file = files[i], !.stat = "ok", !.age = now - mtime,
                                 !.parse = "error"]
    /\ i' = i + 1
    /\ Forget
    /\ UNCHANGED <<cfg, store, now, pc, files, doneNames, curName, curType,
                   curHelp, labels, nSamples, passStart, prevFinal, passesDone,
                   midSnap, putLog, dropped>>

\* lines 166-173: the file is current and parseMF returns its families
ParseOk ==
    /\ pc = "file"
    /\ i <= Len(files)
    /\ \E mtime \in ModTimes(now) :
        /\ ~IsOld(now, mtime)
        /\ cur' = [NoFile EXCEPT !.file = files[i], !.stat = "ok", !.age = now - mtime,
                                 !.parse = "ok"]
    /\ doneNames' = {}
    /\ pc' = "family"
    /\ Forget
    /\ UNCHANGED <<cfg, store, now, files, i, curName, curType, curHelp, labels,
                   nSamples, passStart, prevFinal, passesDone, midSnap, putLog, dropped>>

\* lines 174-183: the range over mfs yields its next family, in any order
NextFamily ==
    /\ pc = "family"
    /\ \E mf \in Families, h \in Helps :
        /\ mf[1] \notin doneNames
        /\ ValueType(mf[2]) # "out" => nSamples < budget
        /\ curName' = mf[1]
        /\ curType' = mf[2]
        /\ curHelp' = h
        /\ doneNames' = doneNames \cup {mf[1]}
    /\ labels' = NoLabels
    /\ pc' = "metric"
    /\ Forget
    /\ UNCHANGED <<cfg, store, now, files, i, nSamples, passStart, prevFinal,
                   passesDone, midSnap, putLog, dropped, passLog>>

\* line 174: the range over mfs is exhausted: next file
EndFile ==
    /\ pc = "family"
    /\ i' = i + 1
    /\ doneNames' = {}
    /\ pc' = "file"
    /\ Forget
    /\ UNCHANGED <<cfg, store, now, files, curName, curType, curHelp, labels,
                   nSamples, passStart, prevFinal, passesDone, midSnap, putLog, dropped,
                   passLog>>

\* lines 185-202: the family's type is not gauge, counter or untyped: break out
BreakOut ==
    /\ pc = "metric"
    /\ ValueType(curType) = "out"
    /\ LeaveFamily
    /\ cur' = [cur EXCEPT !.skipped = TRUE]
    /\ pc' = "family"
    /\ Forget
    /\ UNCHANGED <<cfg, store, now, files, i, doneNames, nSamples, passStart,
                   prevFinal, passesDone, midSnap, putLog, dropped>>

\* the point line 227 hands to collector.Add
Point(name, ls, t, v, ms, h, clock) ==
    [name |-> name, labels |-> ls, valueType |-> ValueType(t), value |-> v,
     timestamp |-> UnixMs(Timestamp(ms, clock)), help |-> h]

\* lines 185-233: one sample of a gauge, counter or untyped family is added
AddMetric ==
    /\ pc = "metric"
    /\ nSamples < budget
    /\ ValueType(curType) # "out"
    /\ \E ls \in LabelSets, v \in Values, ms \in TimestampsMs :
        LET p == Point(curName, SetLabels(labels, ls), curType, v, ms, curHelp, now)
        IN  /\ labels' = SetLabels(labels, ls)
            /\ store' = Add(store, p)
            /\ putLog' = {q \in putLog : q.name # p.name \/ q.labels # p.labels} \cup {p}
            /\ dropped' = dropped \ {p.name}
            /\ lastPut' = [done |-> TRUE, absent |-> ms <= 0,
                           ms |-> IF ms <= 0 THEN 0 ELSE ms, decoded |-> ls, point |-> p,
                           over |-> {q.value : q \in {r \in store : r.name = p.name
                                                                   /\ r.labels = p.labels}}]
    /\ nSamples' = nSamples + 1
    /\ cur' = [cur EXCEPT !.added = TRUE]
    /\ UNCHANGED <<cfg, now, pc, files, i, doneNames, curName, curType, curHelp,
                   passStart, prevFinal, passesDone, midSnap>>

\* line 185: the range over the family's samples is exhausted: next family
EndFamily ==
    /\ pc = "metric"
    /\ LeaveFamily
    /\ pc' = "family"
    /\ Forget
    /\ UNCHANGED <<cfg, store, now, files, i, doneNames, nSamples, passStart,
                   prevFinal, passesDone, midSnap, putLog, dropped, passLog>>

\* lines 239-241, 83: time.Sleep(*optScanInterval) returns; the loop starts over
Sleep ==
    /\ pc = "sleep"
    /\ pc' = "stat"
    /\ passStart' = now
    /\ files' = <<>>
    /\ i' = 1
    /\ nSamples' = 0
    /\ midSnap' = NoSnap
    /\ cur' = NoFile
    /\ Forget
    /\ UNCHANGED <<cfg, store, now, doneNames, curName, curType, curHelp, labels,
                   prevFinal, passesDone, putLog, dropped>>

(* ------------------------------- scrapes ------------------------------- *)
\* what a scrape collects in the current state
Snapshot == Collect(store, now, maxAge)

\* lines 246-249: a GET /metrics collects from the collector
Scrape ==
    /\ midSnap' = IF hist /\ pc \notin {"sleep", "exited"}
                  THEN [taken |-> TRUE, after |-> passesDone, at |-> now,
                        points |-> Snapshot]
                  ELSE midSnap
    /\ Forget
    /\ UNCHANGED <<cfg, store, now, pc, loopVars, passStart, prevFinal, passesDone,
                   putLog, dropped, passLog>>

(* -------------------------------- clock -------------------------------- *)
Tick ==
    /\ now < MaxTime
    /\ now' = now + 1
    /\ Forget
    /\ UNCHANGED <<cfg, store, pc, loopVars, passStart, prevFinal, passesDone,
                   midSnap, putLog, dropped, passLog>>

Next ==
    \/ ScanFail
    \/ Scan
    \/ ClearCollector
    \/ EndPass
    \/ StatFileFail
    \/ OldFile
    \/ CmdReturns
    \/ ParseFail
    \/ ParseOk
    \/ NextFamily
    \/ EndFile
    \/ BreakOut
    \/ AddMetric
    \/ EndFamily
    \/ Sleep
    \/ Scrape
    \/ Tick

Spec == Init /\ [][Next]_vars

SpecGen == InitGen /\ [][Next]_vars

\* the steps the goroutine takes on its own: every step of the loop but the
\* return of cmd.Output() (line 158), which is up to the external command
LoopStep ==
    \/ ScanFail
    \/ Scan
    \/ ClearCollector
    \/ EndPass
    \/ StatFileFail
    \/ OldFile
    \/ ParseFail
    \/ ParseOk
    \/ NextFamily
    \/ EndFile
    \/ BreakOut
    \/ AddMetric
    \/ EndFamily
    \/ Sleep

\* the goroutine is scheduled and time.Sleep returns; the external command may
\* return late or never
SpecLive == InitLive /\ [][Next]_vars /\ WF_vars(LoopStep)

(* ------------------------------- claims -------------------------------- *)
Ids(s) == {Identity(p) : p \in s}
InPass == pc \in {"clear", "file", "cmd", "family", "metric"}

\* C1: a scrape taken during a pass returns the complete set of the previous
\* pass or the complete set of the new pass, each filtered by age at the time
\* of the scrape, never a partially populated set.
C1_AtomicVisibility ==
    (pc = "sleep" /\ midSnap.taken) =>
        midSnap.points \in {Collect(prevFinal, midSnap.at, maxAge),
                            Collect(store, midSnap.at, maxAge)}

\* C2: between the start of a pass and its end, a scrape returns what a scrape
\* just before the pass returned, up to age filtering: clearing and adding are
\* not visible.
C2_NoEffectBeforeCommit ==
    InPass => Snapshot = Collect(prevFinal, now, maxAge)

\* C3: a scrape taken after some pass has completed returns the set of the last
\* completed pass or of a later pass.
C3_MonotonicVisibility ==
    (pc = "sleep" /\ midSnap.taken /\ midSnap.after) =>
        \/ midSnap.points = Collect(prevFinal, midSnap.at, maxAge)
        \/ midSnap.points = Collect(store, midSnap.at, maxAge)

\* C4: a scrape returns only identities supplied since the last Clear: an
\* identity of the previous pass that the new pass does not supply is gone,
\* whatever its timestamp.
C4_FullReplacement ==
    /\ Ids(Snapshot) \subseteq Ids(putLog)
    /\ \A p \in Snapshot : p.name \notin dropped

\* C4 witness: a pass has completed without supplying a name the previous pass
\* had supplied, at a time when no point can have aged out yet.
C4_Witness ==
    pc = "sleep" /\ dropped # {} /\ store # {} /\ now <= StartTime + optMemoryMaxAge

\* C5: a scrape holds at most one point per identity, and for an identity added
\* several times in a pass it holds the point of the last Add.
C5_IdentityDedup ==
    /\ \A p, q \in Snapshot : Identity(p) = Identity(q) => p = q
    /\ Snapshot \subseteq putLog
    /\ lastPut.done =>
          \A q \in store : Identity(q) = Identity(lastPut.point) => q = lastPut.point

\* C5 witness: an Add has just replaced a point of the same identity and another
\* value, and the scrape shows the new one.
C5_Witness ==
    /\ lastPut.done
    /\ \E v \in lastPut.over : v # lastPut.point.value
    /\ lastPut.point \in Snapshot

\* C6: a scrape returns exactly the points added since the last Clear whose age
\* at the time of the read is at most the configured max age.
C6_AgeEviction ==
    Snapshot = {p \in putLog : now - p.timestamp <= optMemoryMaxAge}

\* C6 witness: a point is still in the store and has aged out of the scrape,
\* next to one that is still returned.
C6_Witness ==
    /\ \E p \in store : p \notin Snapshot
    /\ \E p \in store : p \in Snapshot

\* C7: only samples of gauge, counter and untyped families are added; a sample
\* of any other kind of family never is.
C7_KindFiltering ==
    /\ lastPut.done => curType \in {"GAUGE", "COUNTER", "UNTYPED"}
    /\ \A p \in Snapshot : p.valueType \in {"GaugeValue", "CounterValue", "UntypedValue"}

\* C7 witness: a family of the file was skipped for its kind and a sample of
\* another family of the same file has just been added.
C7_Witness ==
    lastPut.done /\ cur.skipped /\ lastPut.point \in Snapshot

\* C8 as claimed: a sample without a timestamp is stored with a timestamp
\* between the start of its pass and the present (so before the pass's end).
C8_TimestampInPass ==
    (lastPut.done /\ lastPut.absent) =>
        (passStart <= lastPut.point.timestamp /\ lastPut.point.timestamp <= now)

\* C8 amended: the timestamp is the time of the Add truncated to whole
\* milliseconds: less than a millisecond before the Add, and never after it.
C8_TimestampTruncated ==
    (lastPut.done /\ lastPut.absent) =>
        /\ now - TicksPerMs < lastPut.point.timestamp
        /\ passStart - TicksPerMs < lastPut.point.timestamp
        /\ lastPut.point.timestamp <= now

\* C8 witness: a sample without a timestamp was added in the millisecond the
\* pass started in.
C8_Witness ==
    lastPut.done /\ lastPut.absent /\ lastPut.point.timestamp < passStart

\* C9: a file older than the old-file age adds no point and has the command run
\* once, with its path in place of the placeholder; no other file has a
\* command run.
C9_StaleFileExclusion ==
    /\ (cur.stat = "ok" /\ cur.age > optOldFilesAge) =>
          ~cur.added /\ cur.parse = "" /\ cur.cmds = <<(<<"ls", "-l", cur.file>>)>>
    /\ (cur.stat # "ok" \/ cur.age <= optOldFilesAge) => cur.cmds = <<>>
    /\ pc = "cmd" => (i <= Len(files) /\ files[i] = cur.file)

\* C9 witness: the command has returned for an old file while the store holds
\* points of an earlier file.
C9_Witness ==
    /\ pc = "file"
    /\ cur.stat = "ok"
    /\ cur.age > optOldFilesAge
    /\ Len(cur.cmds) = 1
    /\ store # {}

\* C10: a file whose parse fails adds no point, what was added before stays,
\* and the pass ends only when every file has been gone through.
C10_DecodeFailureIsolation ==
    /\ cur.parse = "error" => ~cur.added
    /\ store = putLog
    /\ pc = "sleep" => i = Len(files) + 1

\* C10 witness: the pass has completed, its last file failed to parse, and the
\* points of an earlier file are in the store.
C10_Witness ==
    pc = "sleep" /\ cur.parse = "error" /\ store # {} /\ Len(files) = 2

\* C11: a failed stat or ReadDir of the configured path ends the pass only: the
\* loop is never left, it is always at a step from which a pass is under way or
\* the next one is waited for.
C11_ScanErrorRecovery ==
    pc \in {"stat", "clear", "file", "cmd", "family", "metric", "sleep"}

\* C12: the point an Add hands to the collector carries exactly the labels of the
\* decoded sample it came from.
C12_LabelsVerbatim ==
    lastPut.done => lastPut.point.labels = lastPut.decoded

\* C13: the step in which the external command fails changes nothing in the
\* store and goes on to the next file of the pass; a pass in which a command
\* failed ends only when every file has been gone through.
C13_NotifierFailureIsolation ==
    /\ [][(pc = "cmd" /\ cur'.cmdErr) =>
            (store' = store /\ files' = files /\ i' = i + 1 /\ pc' = "file")]_vars
    /\ []((cur.cmdErr /\ pc = "sleep") => i = Len(files) + 1)

\* C13 witness: the command has failed for an old file, the points of an
\* earlier file are in the store and the pass has gone on to its end.
C13_Witness ==
    cur.cmdErr /\ pc = "sleep" /\ store # {} /\ Len(files) = 2

\* C14: a pass that is running the external command for an old file still
\* reaches its end, where the points of all its current files are in the store,
\* whether the command returns or not.
C14_CommandDoesNotBlock ==
    (pc = "cmd") ~> (pc = "sleep")

C16_ScanErrorKeepsStore ==
    /\ [][(pc = "stat" /\ pc' \notin {"stat", "clear"}) =>
            (store' = store /\ Snapshot' = Snapshot)]_vars
    /\ [][pc = "exited" => (store' = store /\ Snapshot' \subseteq Snapshot)]_vars

\* C16 witness: the scan has failed after a completed pass, and the scrape
\* still returns points of that pass.
C16_Witness ==
    pc = "exited" /\ passesDone /\ Snapshot # {}

TypeOK ==
    /\ pc \in {"stat", "clear", "file", "cmd", "family", "metric", "sleep", "exited"}
    /\ now \in StartTime..MaxTime
    /\ \A p \in store : p.valueType \in {"GaugeValue", "CounterValue", "UntypedValue"}
====
